---- MODULE Spec2Model ----
(***************************************************************************)
(* form-builder: POST /create-form turns a prompt into a form definition   *)
(* (PayloadGenerator), validates it (_validate_form_structure) and posts   *)
(* it to the form API (ApiClient.trigger_api).                             *)
(*                                                                         *)
(* Python values are modelled as follows.                                  *)
(*   dict            a function whose DOMAIN is the set of keys present;   *)
(*                   "k in d" is  k \in DOMAIN d                           *)
(*   list            a sequence                                            *)
(*   non-dict JSON   a record with the single key "py" naming its type     *)
(*   unbound local   Unbound                                               *)
(*   exception       [type, file, line, args]: the class, the place of the *)
(*                   raise (as its traceback shows) and the message, kept  *)
(*                   as the sequence of the f-string's pieces              *)
(***************************************************************************)
EXTENDS Integers, Sequences, FiniteSets, TLC

VARIABLES
    pc,                \* where the request being served stands
    prompt,            \* create_form(prompt)
    response,          \* generate_form_from_prompt: response
    section_ref_keys,  \* _validate_form_structure: section_ref_keys
    gi,                \* _validate_form_structure: index of `group` in formGroups
    fi,                \* _validate_form_structure: index of `field` in group["fields"]
    exc,               \* the exception that is propagating, or NoExc
    form_definition,   \* create_and_trigger_form: form_definition
    sent,              \* payloads trigger_api was called with for this request
    api_response,      \* create_and_trigger_form: response
    result             \* what create_form answered, or NoResult

vars == <<pc, prompt, response, section_ref_keys, gi, fi, exc,
          form_definition, sent, api_response, result>>

---------------------------------------------------------------------------
(* Bounds of the explored documents *)

MaxNodes == 3         \* sections plus fields of a document
MaxDeviations == 2    \* attributes departing from the prompt's example

---------------------------------------------------------------------------
(* Python values *)

Unbound == [py |-> "unbound"]
NoExc == [type |-> "none"]
NoResult == [status |-> 0]

EmptyDict == [k \in {} |-> k]

\* {key: o[1]} when the option o is <<v>>, {} when it is <<>>
Opt(key, o) == IF o = <<>> THEN EmptyDict ELSE key :> o[1]

\* d.get(key, default)
Get(d, key, default) == IF key \in DOMAIN d THEN d[key] ELSE default

\* the value of d.get(key), None included, as an option
GetOpt(d, key) == IF key \in DOMAIN d THEN <<d[key]>> ELSE <<>>

IsDict(v) == "py" \notin DOMAIN v

---------------------------------------------------------------------------
(* The documents the chain may return: the example of the prompt template  *)
(* with up to MaxDeviations attributes changed or dropped.                 *)

\* the refKeys of the documents are "a" and "b"
OtherKey(r) == IF r = "a" THEN "b" ELSE "a"

\* <<option, deviations>> of each attribute
NameChoices(n) == {<<<<n>>, 0>>, <<<<>>, 1>>}
FieldTypeChoices == {<<<<"text">>, 0>>, <<<<"date">>, 1>>, <<<<>>, 1>>}
RefChoices(r) == {<<<<r>>, 0>>, <<<<OtherKey(r)>>, 1>>, <<<<>>, 1>>}
ConfigChoices(r) ==
    { <<<<[layout |-> [column |-> 1, sectionKey |-> r]]>>, 0>>,
      <<<<[layout |-> [column |-> 1, sectionKey |-> OtherKey(r)]]>>, 1>>,
      <<<<[layout |-> [column |-> 1]]>>, 1>>,
      <<<<[basicConfig |-> [label |-> "S"]]>>, 1>>,
      <<<<>>, 1>> }

\* sq[1] \cup ... \cup sq[n]
RECURSIVE Cup(_, _)
Cup(sq, n) == IF n = 0 THEN {} ELSE sq[n] \cup Cup(sq, n - 1)

\* fields of a section of refKey r, with exactly d deviations
FieldsOf(r, d) ==
    { Opt("name", n[1]) @@ Opt("fieldType", t[1]) @@ Opt("refKey", k[1]) :
        <<n, t, k>> \in { x \in NameChoices("F") \X FieldTypeChoices \X RefChoices(r) :
                            x[1][2] + x[2][2] + x[3][2] = d } }

\* lists of m fields with exactly d deviations in all
RECURSIVE FieldLists(_, _, _)
FieldLists(r, m, d) ==
    IF m = 0 THEN (IF d = 0 THEN {<<>>} ELSE {})
    ELSE Cup([e \in 1..(d + 1) |->
                { <<f>> \o rest : f \in FieldsOf(r, e - 1),
                                  rest \in FieldLists(r, m - 1, d - (e - 1)) }], d + 1)

\* the "fields" attribute of a section, as an option: m fields, d deviations
FieldsChoices(r, m, d) ==
    (IF m = 0 /\ d = 1 THEN {<<>>} ELSE {}) \cup { <<l>> : l \in FieldLists(r, m, d) }

\* <<name, refKey, the refKey its fields and layout follow, configurations, deviations>>
SectionHeads ==
    { <<n[1], k[1], k[2], c[1], n[2] + k[3] + c[2]>> :
        <<n, k, c>> \in { x \in NameChoices("S")
                                \X {<<<<"a">>, "a", 0>>, <<<<"b">>, "b", 1>>, <<<<>>, "a", 1>>}
                                \X (ConfigChoices("a") \cup ConfigChoices("b")) :
                            x[3] \in ConfigChoices(x[2][2]) } }

\* sections with exactly m fields and d deviations
SectionsOf(m, d) ==
    { Opt("name", h[1]) @@ Opt("refKey", h[2]) @@ Opt("configurations", h[4]) @@ Opt("fields", fl[2]) :
        <<h, fl>> \in { x \in SectionHeads
                              \X Cup([e \in 1..(d + 1) |->
                                        {<<e - 1, l>> : l \in FieldsChoices("a", m, e - 1)
                                                              \cup FieldsChoices("b", m, e - 1)}], d + 1) :
                          /\ x[1][5] + x[2][1] = d
                          /\ x[2][2] \in FieldsChoices(x[1][3], m, x[2][1]) } }

\* lists of n sections with exactly m fields and d deviations in all
RECURSIVE SectionLists(_, _, _)
SectionLists(n, m, d) ==
    IF n = 0 THEN (IF m = 0 /\ d = 0 THEN {<<>>} ELSE {})
    ELSE Cup([i \in 1..((m + 1) * (d + 1)) |->
                LET m1 == (i - 1) \div (d + 1)
                    d1 == (i - 1) % (d + 1)
                IN  { <<s>> \o rest : s \in SectionsOf(m1, d1),
                                      rest \in SectionLists(n - 1, m - m1, d - d1) }],
             (m + 1) * (d + 1))

FormMeta == [name |-> "Contact", status |-> "draft"]

\* the lists of at most MaxNodes sections and fields, with exactly d deviations
FormGroupsOf(d) ==
    Cup([i \in 1..((MaxNodes + 1) * (MaxNodes + 1)) |->
            LET n == (i - 1) \div (MaxNodes + 1)
                m == (i - 1) % (MaxNodes + 1)
            IN  IF n + m <= MaxNodes THEN SectionLists(n, m, d) ELSE {}],
        (MaxNodes + 1) * (MaxNodes + 1))

\* formVersion values with exactly d deviations
FormVersionsOf(d) ==
    (IF d = 1 THEN {[formId |-> "f1", version |-> 1]} ELSE {})
    \cup { [formId |-> "f1", version |-> 1, formGroups |-> l] : l \in FormGroupsOf(d) }

\* JSON objects with exactly d deviations
ObjectsOf(d) ==
    { Opt("form", <<FormMeta>>) @@ Opt("formVersion", vo) :
        vo \in (IF d = 1 THEN {<<>>} ELSE {}) \cup { <<v>> : v \in FormVersionsOf(d) } }
    \cup (IF d = 0 THEN {}
          ELSE { Opt("formVersion", vo) :
                   vo \in (IF d = 2 THEN {<<>>} ELSE {}) \cup { <<v>> : v \in FormVersionsOf(d - 1) } })

\* JSON the parser yields that is no object
NonObjects == {[py |-> "list"], [py |-> "str"]}

Documents == NonObjects \cup Cup([d \in 1..(MaxDeviations + 1) |-> ObjectsOf(d - 1)], MaxDeviations + 1)

---------------------------------------------------------------------------
(* llm/payload_generator.py: _validate_form_structure *)

Raise(type, line, args) ==
    [type |-> type, file |-> "llm/payload_generator.py", line |-> line, args |-> args]

\* the two keys looked for in the other order
required_keys_reversed == <<"formVersion", "form">>

required_keys == <<"form", "formVersion">>

valid_field_types == <<"text", "text_area", "currency", "dropdown", "radio", "checkbox">>

\* x in lst
InList(x, lst) == \E i \in DOMAIN lst : lst[i] = x

\* lines 147-156: the checks above the loop over formGroups
TopError(form_definition_) ==
    IF ~IsDict(form_definition_)
    THEN Raise("ValueError", 148, <<"Response must be a JSON object">>)
    ELSE LET missing == { i \in DOMAIN required_keys :
                            required_keys[i] \notin DOMAIN form_definition_ }
         IN  IF missing # {}
             THEN LET i == CHOOSE j \in missing : \A k \in missing : j <= k
                  IN  Raise("ValueError", 153,
                            <<"Response must contain '", required_keys[i], "' field">>)
             ELSE IF "formGroups" \notin DOMAIN form_definition_["formVersion"]
             THEN Raise("ValueError", 156, <<"formVersion must contain 'formGroups' array">>)
             ELSE NoExc

\* lines 161-162: the section has a refKey
GroupRefKeyError(group) ==
    IF "refKey" \notin DOMAIN group
    THEN Raise("ValueError", 162,
               <<"Section '", Get(group, "name", "unnamed"), "' missing refKey">>)
    ELSE NoExc

\* lines 165-166: the section has fields
GroupFieldsError(group) ==
    IF "fields" \notin DOMAIN group
    THEN Raise("ValueError", 166, <<"Each formGroup must contain 'fields' array">>)
    ELSE NoExc

\* FieldError without the comparison of the two refKeys
FieldErrorNoMatch(field, group) ==
    IF "fieldType" \notin DOMAIN field
    THEN Raise("KeyError", 171, <<"fieldType">>)
    ELSE IF ~InList(field["fieldType"], valid_field_types)
    THEN Raise("ValueError", 172, <<"Invalid field type: ", field["fieldType"]>>)
    ELSE IF "refKey" \notin DOMAIN field
    THEN Raise("ValueError", 176,
               <<"Field '", Get(field, "name", "unnamed"), "' missing refKey">>)
    ELSE NoExc

\* FieldError looking at the refKey before the fieldType
FieldErrorRefKeyFirst(field, group) ==
    IF "refKey" \notin DOMAIN field
    THEN Raise("ValueError", 176,
               <<"Field '", Get(field, "name", "unnamed"), "' missing refKey">>)
    ELSE IF field["refKey"] # group["refKey"]
    THEN Raise("ValueError", 178,
               <<"Field '", Get(field, "name", "unnamed"), "' has refKey '", field["refKey"],
                 "' that doesn't match its section refKey '", group["refKey"], "'">>)
    ELSE IF "fieldType" \notin DOMAIN field
    THEN Raise("KeyError", 171, <<"fieldType">>)
    ELSE IF ~InList(field["fieldType"], valid_field_types)
    THEN Raise("ValueError", 172, <<"Invalid field type: ", field["fieldType"]>>)
    ELSE NoExc

\* FieldError whose mismatch message leaves out the section's refKey
FieldErrorTerse(field, group) ==
    IF "fieldType" \notin DOMAIN field
    THEN Raise("KeyError", 171, <<"fieldType">>)
    ELSE IF ~InList(field["fieldType"], valid_field_types)
    THEN Raise("ValueError", 172, <<"Invalid field type: ", field["fieldType"]>>)
    ELSE IF "refKey" \notin DOMAIN field
    THEN Raise("ValueError", 176,
               <<"Field '", Get(field, "name", "unnamed"), "' missing refKey">>)
    ELSE IF field["refKey"] # group["refKey"]
    THEN Raise("ValueError", 178,
               <<"Field '", Get(field, "name", "unnamed"), "' has refKey '", field["refKey"],
                 "' that doesn't match its section refKey">>)
    ELSE NoExc

\* lines 170-181: the body of the loop over group["fields"]
FieldError(field, group) ==
    IF "fieldType" \notin DOMAIN field
    THEN Raise("KeyError", 171, <<"fieldType">>)
    ELSE IF ~InList(field["fieldType"], valid_field_types)
    THEN Raise("ValueError", 172, <<"Invalid field type: ", field["fieldType"]>>)
    ELSE IF "refKey" \notin DOMAIN field
    THEN Raise("ValueError", 176,
               <<"Field '", Get(field, "name", "unnamed"), "' missing refKey">>)
    ELSE IF field["refKey"] # group["refKey"]
    THEN Raise("ValueError", 178,
               <<"Field '", Get(field, "name", "unnamed"), "' has refKey '", field["refKey"],
                 "' that doesn't match its section refKey '", group["refKey"], "'">>)
    ELSE NoExc

\* lines 183-189: the section's layout names the section
LayoutError(group) ==
    IF /\ "configurations" \in DOMAIN group
       /\ "layout" \in DOMAIN group["configurations"]
       /\ GetOpt(group["configurations"]["layout"], "sectionKey") # <<group["refKey"]>>
    THEN Raise("ValueError", 186,
               <<"Section '", Get(group, "name", "unnamed"),
                 "' has mismatched sectionKey in layout configuration">>)
    ELSE NoExc

\* str(e)
Str(e) == IF e.type = "KeyError" THEN <<"'">> \o e.args \o <<"'">> ELSE e.args

\* lines 169-181: the loop over group["fields"], from the j-th field on
RECURSIVE FieldsError(_, _)
FieldsError(group, j) ==
    IF j > Len(group["fields"]) THEN NoExc
    ELSE LET e == FieldError(group["fields"][j], group)
         IN  IF e # NoExc THEN e ELSE FieldsError(group, j + 1)

\* lines 161-189: the body of the loop over formGroups
GroupError(group) ==
    IF GroupRefKeyError(group) # NoExc THEN GroupRefKeyError(group)
    ELSE IF GroupFieldsError(group) # NoExc THEN GroupFieldsError(group)
    ELSE IF FieldsError(group, 1) # NoExc THEN FieldsError(group, 1)
    ELSE LayoutError(group)

\* lines 160-189: the loop over formGroups, from the i-th section on
RECURSIVE GroupsError(_, _)
GroupsError(groups, i) ==
    IF i > Len(groups) THEN NoExc
    ELSE LET e == GroupError(groups[i])
         IN  IF e # NoExc THEN e ELSE GroupsError(groups, i + 1)

\* lines 137-189: the exception a call raises, NoExc when it returns
ValidateFormStructure(form_definition_) ==
    IF TopError(form_definition_) # NoExc THEN TopError(form_definition_)
    ELSE GroupsError(form_definition_["formVersion"]["formGroups"], 1)

---------------------------------------------------------------------------
(* The collaborators *)

Prompts == {"a contact form"}

\* what self.chain.invoke may raise
ChainFailures ==
    { [type |-> "JSONDecodeError", file |-> "json/decoder.py", line |-> 0,
       args |-> <<"Expecting value: line 1 column 1 (char 0)">>],
      [type |-> "OutputParserException", file |-> "langchain_core", line |-> 0,
       args |-> <<"Invalid json output">>] }

\* what the form API may answer
ApiBodies == { [id |-> "form-1"], [error |-> "unauthorized"] }

\* what trigger_api may raise
TransportFailures ==
    { [type |-> "ConnectionError", file |-> "utils/api_client.py", line |-> 11,
       args |-> <<"Connection refused">>] }

---------------------------------------------------------------------------
(* One request of POST /create-form *)

Groups == response["formVersion"]["formGroups"]
Group == Groups[gi]
Field == Group["fields"][fi]

Init ==
    /\ pc = "idle"
    /\ prompt = Unbound
    /\ response = Unbound
    /\ section_ref_keys = {}
    /\ gi = 0
    /\ fi = 0
    /\ exc = NoExc
    /\ form_definition = Unbound
    /\ sent = <<>>
    /\ api_response = Unbound
    /\ result = NoResult

\* app.py 9-13, form_service.py 10-12: a request comes in
CreateForm ==
    /\ pc = "idle"
    /\ \E p \in Prompts : prompt' = p
    /\ response' = Unbound
    /\ form_definition' = Unbound
    /\ api_response' = Unbound
    /\ exc' = NoExc
    /\ sent' = <<>>
    /\ result' = NoResult
    /\ gi' = 0
    /\ fi' = 0
    /\ pc' = "invoke"
    /\ UNCHANGED section_ref_keys

\* payload_generator.py 119: the chain answers or fails
Invoke ==
    /\ pc = "invoke"
    /\ \/ \E d \in Documents :
            /\ response' = d
            /\ pc' = "validate"
            /\ UNCHANGED exc
       \/ \E e \in ChainFailures :
            /\ exc' = e
            /\ pc' = "except"
            /\ UNCHANGED response
    /\ UNCHANGED <<prompt, section_ref_keys, gi, fi, form_definition, sent, api_response, result>>

\* CheckTop with a working set that outlives the call
CheckTopKeepsSet ==
    /\ pc = "validate"
    /\ IF TopError(response) # NoExc
       THEN /\ exc' = TopError(response)
            /\ pc' = "except"
            /\ UNCHANGED gi
       ELSE /\ gi' = IF Len(Groups) = 0 THEN 0 ELSE 1
            /\ pc' = IF Len(Groups) = 0 THEN "validated" ELSE "group"
            /\ UNCHANGED exc
    /\ UNCHANGED <<prompt, response, section_ref_keys, fi, form_definition, sent,
                   api_response, result>>

\* payload_generator.py 147-160
CheckTop ==
    /\ pc = "validate"
    /\ IF TopError(response) # NoExc
       THEN /\ exc' = TopError(response)
            /\ pc' = "except"
            /\ UNCHANGED <<section_ref_keys, gi>>
       ELSE /\ section_ref_keys' = {}
            /\ gi' = IF Len(Groups) = 0 THEN 0 ELSE 1
            /\ pc' = IF Len(Groups) = 0 THEN "validated" ELSE "group"
            /\ UNCHANGED exc
    /\ UNCHANGED <<prompt, response, fi, form_definition, sent, api_response, result>>

\* payload_generator.py 161-169
CheckGroup ==
    /\ pc = "group"
    /\ IF GroupRefKeyError(Group) # NoExc
       THEN /\ exc' = GroupRefKeyError(Group)
            /\ pc' = "except"
            /\ UNCHANGED <<section_ref_keys, fi>>
       ELSE /\ section_ref_keys' = section_ref_keys \cup {Group["refKey"]}
            /\ IF GroupFieldsError(Group) # NoExc
               THEN /\ exc' = GroupFieldsError(Group)
                    /\ pc' = "except"
                    /\ UNCHANGED fi
               ELSE /\ fi' = IF Len(Group["fields"]) = 0 THEN 0 ELSE 1
                    /\ pc' = IF Len(Group["fields"]) = 0 THEN "layout" ELSE "field"
                    /\ UNCHANGED exc
    /\ UNCHANGED <<prompt, response, gi, form_definition, sent, api_response, result>>

\* payload_generator.py 169-181
CheckField ==
    /\ pc = "field"
    /\ IF FieldError(Field, Group) # NoExc
       THEN /\ exc' = FieldError(Field, Group)
            /\ pc' = "except"
            /\ UNCHANGED fi
       ELSE /\ fi' = IF fi < Len(Group["fields"]) THEN fi + 1 ELSE fi
            /\ pc' = IF fi < Len(Group["fields"]) THEN "field" ELSE "layout"
            /\ UNCHANGED exc
    /\ UNCHANGED <<prompt, response, section_ref_keys, gi, form_definition, sent,
                   api_response, result>>

\* payload_generator.py 183-189, 160
CheckLayout ==
    /\ pc = "layout"
    /\ IF LayoutError(Group) # NoExc
       THEN /\ exc' = LayoutError(Group)
            /\ pc' = "except"
            /\ UNCHANGED gi
       ELSE /\ gi' = IF gi < Len(Groups) THEN gi + 1 ELSE gi
            /\ pc' = IF gi < Len(Groups) THEN "group" ELSE "validated"
            /\ UNCHANGED exc
    /\ UNCHANGED <<prompt, response, section_ref_keys, fi, form_definition, sent,
                   api_response, result>>

\* payload_generator.py 122-125, form_service.py 12-13
ReturnResponse ==
    /\ pc = "validated"
    /\ form_definition' = response
    /\ pc' = "trigger"
    /\ UNCHANGED <<prompt, response, section_ref_keys, gi, fi, exc, sent, api_response, result>>

\* HandleException that logs and returns the response instead of raising again
HandleExceptionReturns ==
    /\ pc = "except"
    /\ exc' = NoExc
    /\ pc' = "validated"
    /\ UNCHANGED <<prompt, response, section_ref_keys, gi, fi, form_definition, sent,
                   api_response, result>>

\* payload_generator.py 127-135: log and raise again
HandleException ==
    /\ pc = "except"
    /\ exc' = IF exc.type = "JSONDecodeError" /\ response = Unbound
              THEN Raise("UnboundLocalError", 128,
                         <<"local variable 'response' referenced before assignment">>)
              ELSE exc
    /\ pc' = "respond"
    /\ UNCHANGED <<prompt, response, section_ref_keys, gi, fi, form_definition, sent,
                   api_response, result>>

\* form_service.py 15-16, api_client.py 8-11
TriggerApi ==
    /\ pc = "trigger"
    /\ sent' = Append(sent, form_definition)
    /\ \/ \E b \in ApiBodies :
            /\ api_response' = b
            /\ UNCHANGED exc
       \/ \E e \in TransportFailures :
            /\ exc' = e
            /\ UNCHANGED api_response
    /\ pc' = "respond"
    /\ UNCHANGED <<prompt, response, section_ref_keys, gi, fi, form_definition, result>>

\* Respond that answers a ValueError with status 422
RespondByKind ==
    /\ pc = "respond"
    /\ result' = IF exc = NoExc
                 THEN [status |-> 200, body |-> api_response]
                 ELSE [status |-> (IF exc.type = "ValueError" THEN 422 ELSE 500),
                       detail |-> Str(exc)]
    /\ pc' = "idle"
    /\ UNCHANGED <<prompt, response, section_ref_keys, gi, fi, exc, form_definition, sent,
                   api_response>>

\* app.py 11-16
Respond ==
    /\ pc = "respond"
    /\ result' = IF exc = NoExc
                 THEN [status |-> 200, body |-> api_response]
                 ELSE [status |-> 500, detail |-> Str(exc)]
    /\ pc' = "idle"
    /\ UNCHANGED <<prompt, response, section_ref_keys, gi, fi, exc, form_definition, sent,
                   api_response>>

Next ==
    \/ CreateForm
    \/ Invoke
    \/ CheckTop
    \/ CheckGroup
    \/ CheckField
    \/ CheckLayout
    \/ ReturnResponse
    \/ HandleException
    \/ TriggerApi
    \/ Respond

Spec == Init /\ [][Next]_vars

---------------------------------------------------------------------------
(* Vocabulary of the properties *)

\* the pieces of a message
Tokens(e) == { e.args[i] : i \in DOMAIN e.args }

\* the propagating exception was raised by _validate_form_structure
ValidatorRaised ==
    /\ exc # NoExc
    /\ exc.file = "llm/payload_generator.py"
    /\ exc.line >= 147

\* ... by its loop over formGroups
RaisedInLoop == ValidatorRaised /\ exc.line >= 161

AllowedTypes == {"text", "text_area", "currency", "dropdown", "radio", "checkbox"}

HasLayout(g) == "configurations" \in DOMAIN g /\ "layout" \in DOMAIN g["configurations"]
HasSectionKey(g) == HasLayout(g) /\ "sectionKey" \in DOMAIN g["configurations"]["layout"]

NameOf(node) == IF "name" \in DOMAIN node THEN node["name"] ELSE "unnamed"

\* <<i, stage, j, check>> for every check of the loop that the i-th section (and
\* its j-th field) fails, each judged on its own; stages and checks are numbered
\* in the order of the specification: 1 refKey, 2 fields key, 3 the fields (1
\* fieldType, 2 refKey present, 3 refKey equal), 4 layout sectionKey.
\* The layout's sectionKey mismatches when it is not the section's refKey.
Violations(gs) ==
    { v \in (DOMAIN gs) \X {1, 2, 4} \X {0} \X {0} :
        LET g == gs[v[1]]
        IN  \/ v[2] = 1 /\ "refKey" \notin DOMAIN g
            \/ v[2] = 2 /\ "fields" \notin DOMAIN g
            \/ /\ v[2] = 4
               /\ HasLayout(g)
               /\ "refKey" \in DOMAIN g
               /\ GetOpt(g["configurations"]["layout"], "sectionKey") # <<g["refKey"]>> }
    \cup
    { v \in (DOMAIN gs) \X {3} \X (1..MaxNodes) \X {1, 2, 3} :
        LET g == gs[v[1]]
        IN  /\ "fields" \in DOMAIN g
            /\ v[3] \in DOMAIN g["fields"]
            /\ LET f == g["fields"][v[3]]
               IN  \/ /\ v[4] = 1
                      /\ \/ "fieldType" \notin DOMAIN f
                         \/ f["fieldType"] \notin AllowedTypes
                   \/ v[4] = 2 /\ "refKey" \notin DOMAIN f
                   \/ /\ v[4] = 3
                      /\ "refKey" \in DOMAIN f
                      /\ "refKey" \in DOMAIN g
                      /\ f["refKey"] # g["refKey"] }

\* v comes before w in the order of traversal
Before(v, w) ==
    \/ v[1] < w[1]
    \/ v[1] = w[1] /\ v[2] < w[2]
    \/ v[1] = w[1] /\ v[2] = w[2] /\ v[3] < w[3]
    \/ v[1] = w[1] /\ v[2] = w[2] /\ v[3] = w[3] /\ v[4] < w[4]

Earliest(vs) == CHOOSE v \in vs : \A w \in vs : w = v \/ Before(v, w)

\* the check a raise of the loop belongs to, where the loops stand
RaisedAt ==
    CASE exc.line = 162 -> <<gi, 1, 0, 0>>
      [] exc.line = 166 -> <<gi, 2, 0, 0>>
      [] exc.line \in {171, 172} -> <<gi, 3, fi, 1>>
      [] exc.line = 176 -> <<gi, 3, fi, 2>>
      [] exc.line = 178 -> <<gi, 3, fi, 3>>
      [] exc.line = 186 -> <<gi, 4, 0, 0>>

---------------------------------------------------------------------------
(* Properties *)

\* C1: trigger_api is called at most once per request, only with the document
\* generate_form_from_prompt returned, which the validator accepted; when the
\* chain or the validator fails, it is not called at all.
C1_SinkOnlyAfterAcceptance ==
    /\ Len(sent) <= 1
    /\ sent # <<>> =>
          /\ sent[1] = response
          /\ ValidateFormStructure(sent[1]) = NoExc
    /\ (exc # NoExc /\ exc.file # "utils/api_client.py") => sent = <<>>
    /\ (pc = "idle" /\ result # NoResult /\ response # Unbound
            /\ ValidateFormStructure(response) # NoExc) => sent = <<>>

C1_Witness ==
    /\ pc = "idle"
    /\ result # NoResult
    /\ sent = <<response>>
    /\ Len(Groups) >= 1

Referential(d) ==
    \A i \in DOMAIN d["formVersion"]["formGroups"] :
        LET g == d["formVersion"]["formGroups"][i]
        IN  /\ "refKey" \in DOMAIN g
            /\ "fields" \in DOMAIN g
            /\ \A j \in DOMAIN g["fields"] :
                  LET f == g["fields"][j]
                  IN  /\ "fieldType" \in DOMAIN f
                      /\ f["fieldType"] \in AllowedTypes
                      /\ "refKey" \in DOMAIN f
                      /\ f["refKey"] = g["refKey"]
            /\ HasSectionKey(g) => g["configurations"]["layout"]["sectionKey"] = g["refKey"]

\* C2: a document the validator returns normally on has, in every section, a
\* refKey and a fields key, in every field an allowed fieldType and the refKey
\* of its section, and a layout sectionKey, where present, equal to the
\* section's refKey.
C2_AcceptedIsReferential ==
    (pc = "validated" \/ form_definition # Unbound) => Referential(response)

C2_Witness ==
    /\ pc = "validated"
    /\ \E i \in DOMAIN Groups :
          /\ HasSectionKey(Groups[i])
          /\ "fields" \in DOMAIN Groups[i]
          /\ Len(Groups[i]["fields"]) >= 1

\* C3: no two sections of a document the validator accepts have the same refKey.
C3_UniqueSectionRefKeys ==
    pc = "validated" =>
        \A i, j \in DOMAIN Groups :
            (i # j /\ "refKey" \in DOMAIN Groups[i] /\ "refKey" \in DOMAIN Groups[j])
                => Groups[i]["refKey"] # Groups[j]["refKey"]

\* C4: validation of a nested mapping ends in a normal return or in a ValueError,
\* nothing else.
C4_OnlyValueError ==
    ValidatorRaised => exc.type = "ValueError"

\* C5: the layout check rejects a section only when its layout's sectionKey is
\* present and differs from the section's refKey.
C5_LayoutOnlyWhenPresent ==
    (ValidatorRaised /\ exc.line = 186) =>
        /\ HasSectionKey(Group)
        /\ Group["configurations"]["layout"]["sectionKey"] # Group["refKey"]

C6_EarliestInv ==
    RaisedInLoop =>
        /\ Violations(Groups) # {}
        /\ RaisedAt = Earliest(Violations(Groups))

C6_NoCheckAfterFailure ==
    (ValidatorRaised /\ pc' # "invoke") =>
        /\ gi' = gi
        /\ fi' = fi
        /\ exc' = exc
        /\ pc' \in {"respond", "idle"}

TopRaised(line) == ValidatorRaised /\ exc.line = line /\ exc.type = "ValueError" /\ gi = 0

\* C7: the checks above the loop come first and in the order: not an object;
\* form missing (whether or not formVersion is missing too); formVersion
\* missing; formGroups missing. Each is raised whatever the sections hold, and
\* before any section is looked at.
C7_TopChecksInOrder ==
    (response # Unbound /\ pc # "validate") =>
        IF ~IsDict(response)
        THEN TopRaised(148) /\ exc.args = <<"Response must be a JSON object">>
        ELSE IF "form" \notin DOMAIN response
        THEN TopRaised(153) /\ "form" \in Tokens(exc) /\ "formVersion" \notin Tokens(exc)
        ELSE IF "formVersion" \notin DOMAIN response
        THEN TopRaised(153) /\ "formVersion" \in Tokens(exc) /\ "form" \notin Tokens(exc)
        ELSE IF "formGroups" \notin DOMAIN response["formVersion"]
        THEN TopRaised(156) /\ exc.args = <<"formVersion must contain 'formGroups' array">>
        ELSE ~(ValidatorRaised /\ exc.line < 161)

C7_Witness ==
    /\ response # Unbound
    /\ IsDict(response)
    /\ DOMAIN response = {}
    /\ TopRaised(153)

\* C8 as stated: every ValueError of the loop names the section or field at
\* fault ('unnamed' when it has no name), and both mismatch errors carry the
\* two values that differ.
C8_EveryErrorNamesAndCarries ==
    (RaisedInLoop /\ exc.type = "ValueError") =>
        /\ exc.line \in {162, 166, 186} => NameOf(Group) \in Tokens(exc)
        /\ exc.line \in {172, 176, 178} => NameOf(Field) \in Tokens(exc)
        /\ exc.line = 178 => {Field["refKey"], Group["refKey"]} \subseteq Tokens(exc)
        /\ exc.line = 186 => Group["refKey"] \in Tokens(exc)

\* C8 amended: the missing-refKey errors name the section or the field at
\* fault ('unnamed' when it has no name); the field mismatch error names the
\* field and carries its refKey and the section's; the layout mismatch error
\* names the section and carries neither value; the missing-fields error is a
\* fixed text; the invalid-type error carries the type and not the field's name.
C8_WhatErrorsCarry ==
    (RaisedInLoop /\ exc.type = "ValueError") =>
        /\ exc.line = 162 =>
              exc.args = <<"Section '", NameOf(Group), "' missing refKey">>
        /\ exc.line = 166 =>
              exc.args = <<"Each formGroup must contain 'fields' array">>
        /\ exc.line = 172 =>
              /\ Field["fieldType"] \in Tokens(exc)
              /\ Len(exc.args) = 2
              /\ NameOf(Field) \notin Tokens(exc)
        /\ exc.line = 176 =>
              exc.args = <<"Field '", NameOf(Field), "' missing refKey">>
        /\ exc.line = 178 =>
              /\ NameOf(Field) \in Tokens(exc)
              /\ Field["refKey"] \in Tokens(exc)
              /\ Group["refKey"] \in Tokens(exc)
              /\ Field["refKey"] # Group["refKey"]
        /\ exc.line = 186 =>
              /\ NameOf(Group) \in Tokens(exc)
              /\ Len(exc.args) = 3
              /\ Group["refKey"] \notin Tokens(exc)

C8_Witness ==
    /\ RaisedInLoop
    /\ exc.line = 178
    /\ "name" \notin DOMAIN Field

SeenSoFar ==
    { Groups[i]["refKey"] : i \in 1..(IF pc = "group" THEN gi - 1 ELSE gi) }

C9_Inv ==
    /\ pc = "validated" => ValidateFormStructure(response) = NoExc
    /\ (pc = "except" /\ response # Unbound) => exc = ValidateFormStructure(response)
    /\ pc \in {"group", "field", "layout", "validated"} => section_ref_keys = SeenSoFar

C9_DocumentUntouched ==
    pc \in {"validate", "group", "field", "layout", "validated", "except"} => response' = response

\* C9: what a call of the validator raises or returns is a function of the
\* document alone, whatever earlier calls left behind; the working set holds
\* exactly the refKeys of the sections of this call looked at so far (so it is
\* empty when the loop starts); and the document is not changed by the call.
C9_NoCarriedState == []C9_Inv /\ [][C9_DocumentUntouched]_vars

C9_Witness ==
    /\ pc = "validate"
    /\ section_ref_keys # {}
    /\ ValidateFormStructure(response) = NoExc
    /\ Len(Groups) >= 1

====
